---- MODULE Spec2Model ----
(***************************************************************************)
(* Model of the lessons/orders HTTP backend (src/server.js).               *)
(*                                                                         *)
(* The document store holds two collections, lessons and orders.  Route    *)
(* handlers are async functions: every `await` on a store call is a point  *)
(* where other requests may be served, so createOrder is split at its two  *)
(* awaits (lessons.find, orders.insertOne).  createLessons and             *)
(* updateLesson make a single store call each; the store applies it        *)
(* atomically per document.  A store call may fail (the promise rejects),  *)
(* in which case it has no effect on the collection.                       *)
(***************************************************************************)
EXTENDS Integers, Sequences, FiniteSets, TLC

(* ------------------------------ bounds -------------------------------- *)

\* largest seat count an order request asks for; lesson documents hold
\* capacities from 0 to MaxSeats + 1
MaxSeats == 1

(* ------------------------- program constants -------------------------- *)

Created == 201
BadRequest == 400
ServerError == 500

(* ----------------------------- universes ------------------------------ *)

\* clients that each send one POST /api/orders request
Clients == {"c1", "c2"}

\* ObjectIds the store hands out to inserted lessons, in this order
OidPool == <<"a1", "a2">>

Subjects == {"math", "art"}

Fields == {"name", "phone", "lessonIDs", "spaces"}

Range(s) == {s[i] : i \in DOMAIN s}

EmptyMap == [k \in {} |-> 0]

(* ------------------------------- state -------------------------------- *)

VARIABLES
    lessons,    \* lessons collection: ObjectId -> document
    orders,     \* orders collection: sequence of documents, in insert order
    pc,         \* per client: "idle", "find", "insert", "done"
    req,        \* per client: the request body (EmptyMap before it is sent)
    resp,       \* per client: the statuses sent on its response, in order
    calls,      \* per client: the store calls its handler has issued
    raced       \* history: an insert was served while another request that had
                \* already passed its capacity check was still awaiting its own

vars == <<lessons, orders, pc, req, resp, calls, raced>>

(* --------------------------- pure functions --------------------------- *)

(* helpers of the properties and of the altered definitions below *)

\* seats of lesson l asked by the order o
Seats(o, l) == IF l \in DOMAIN o.spaces THEN o.spaces[l] ELSE 0

\* seats of lesson l recorded across the orders os
RECURSIVE Sold(_, _)
Sold(os, l) == IF os = <<>> THEN 0 ELSE Seats(Head(os), l) + Sold(Tail(os), l)

\* Identifier strings a client may send: "a1"/"a2" are the hex strings of
\* the pool, "A1" is "a1" written in upper-case hex, "a3" is well formed but
\* names no document, "zz" is not a valid ObjectId string.
\* new ObjectId(id) accepts hex in either case; an invalid string throws
IsValidObjectId(s) == s \in {"a1", "A1", "a2", "a3"}

\* new ObjectId(id): the 12 bytes the hex string denotes, written here as
\* the canonical (lower-case) hex string that ObjectId.toString() returns
ObjectId(s) == IF s = "A1" THEN "a1" ELSE s

\* JavaScript truthiness of a body field: a missing key is undefined, the
\* empty string is falsy, arrays and objects (even empty) are truthy
Truthy(body, f) ==
    /\ f \in DOMAIN body
    /\ (f \in {"name", "phone"} => body[f] # "")

\* altered: the presence check forgets phone
MissingFieldsNoPhone(body) ==
    \/ ~Truthy(body, "name")
    \/ ~Truthy(body, "lessonIDs")
    \/ ~Truthy(body, "spaces")

\* if (!name || !phone || !lessonIDs || !spaces)
MissingFields(body) ==
    \/ ~Truthy(body, "name")
    \/ ~Truthy(body, "phone")
    \/ ~Truthy(body, "lessonIDs")
    \/ ~Truthy(body, "spaces")

\* altered: an identifier without a document yields a lesson with no spaces
FindLessonsOrZero(coll, ids) ==
    [l \in {ObjectId(ids[i]) : i \in DOMAIN ids} |->
        IF l \in DOMAIN coll THEN coll[l] ELSE [subject |-> "", spaces |-> 0]]

\* lessons.find({_id: {$in: ids}}).toArray(): the matching documents,
\* keyed by their _id
FindLessons(coll, ids) ==
    [l \in {ObjectId(ids[i]) : i \in DOMAIN ids} \cap DOMAIN coll |-> coll[l]]

\* altered: <= in place of <
JsLessOrEqual(doc, spaces, l) ==
    /\ "spaces" \in DOMAIN doc
    /\ l \in DOMAIN spaces
    /\ doc.spaces <= spaces[l]

\* altered: a lesson without an entry counts as one requested seat
JsLessDefaultOne(doc, spaces, l) ==
    /\ "spaces" \in DOMAIN doc
    /\ doc.spaces < (IF l \in DOMAIN spaces THEN spaces[l] ELSE 1)

\* lesson.spaces < spaces[lesson._id]: the property lookup is by the
\* ObjectId's string form; a missing property on either side is undefined,
\* and a comparison with undefined is false
JsLess(doc, spaces, l) ==
    /\ "spaces" \in DOMAIN doc
    /\ l \in DOMAIN spaces
    /\ doc.spaces < spaces[l]

\* altered: rejects only when every selected lesson compares less
NotEnoughSpacesInAll(selected, spaces) ==
    /\ DOMAIN selected # {}
    /\ \A l \in DOMAIN selected : JsLess(selected[l], spaces, l)

\* altered: the seats already ordered are taken off the stored spaces
NotEnoughSpacesLeft(selected, spaces) ==
    \E l \in DOMAIN selected :
        /\ "spaces" \in DOMAIN selected[l]
        /\ l \in DOMAIN spaces
        /\ selected[l].spaces - Sold(orders, l) < spaces[l]

\* the capacity loop returns 400 on the first lesson that compares less
NotEnoughSpaces(selected, spaces) ==
    \E l \in DOMAIN selected : JsLess(selected[l], spaces, l)

\* const order = { name, phone, lessonIDs, spaces, createdAt: new Date() }
MakeOrder(body) ==
    [f \in (Fields \cap DOMAIN body) \cup {"createdAt"} |->
        IF f = "createdAt" THEN "Date" ELSE body[f]]

\* altered: an upsert keyed on the customer's name
InsertOneUpsert(coll, doc) ==
    IF \E i \in DOMAIN coll : coll[i].name = doc.name
    THEN [i \in DOMAIN coll |-> IF coll[i].name = doc.name THEN doc ELSE coll[i]]
    ELSE Append(coll, doc)

\* orders.insertOne(order)
InsertOne(coll, doc) == Append(coll, doc)

\* altered: the ordered seats are taken off the lessons
LessonsAfterOrderDecremented(coll, order) ==
    [l \in DOMAIN coll |->
        IF l \in DOMAIN order.spaces
        THEN [coll[l] EXCEPT !.spaces = @ - order.spaces[l]]
        ELSE coll[l]]

\* the lessons collection after an order is placed: createOrder makes no
\* write to it
LessonsAfterOrder(coll, order) == coll

\* altered: the body replaces the document
SetFieldsReplace(doc, body) == body

\* {$set: body} on one document: the fields of body replace or extend the
\* document's, every other field stays
SetFields(doc, body) ==
    [f \in DOMAIN doc \cup DOMAIN body |->
        IF f \in DOMAIN body THEN body[f] ELSE doc[f]]

\* lessons.updateOne({_id}, {$set: body}): at most the matching document
UpdateOne(coll, oid, body) ==
    [l \in DOMAIN coll |-> IF l = oid THEN SetFields(coll[l], body) ELSE coll[l]]

\* lessons.insertMany(docs): each document gets the next ObjectId
RECURSIVE InsertMany(_, _)
InsertMany(coll, docs) ==
    IF docs = <<>> THEN coll
    ELSE LET oid == OidPool[Cardinality(DOMAIN coll) + 1]
             with == [l \in DOMAIN coll \cup {oid} |->
                         IF l = oid THEN Head(docs) ELSE coll[l]]
         IN InsertMany(with, Tail(docs))

(* ------------------------------ inputs -------------------------------- *)

\* documents of POST /api/lessons: a new lesson has at least one seat
LessonDocs == [subject : Subjects, spaces : 1..MaxSeats + 1]

LessonBatches == {<<d>> : d \in LessonDocs} \cup
                 {<<d, e>> : d \in {x \in LessonDocs : x.subject = "math"},
                             e \in {x \in LessonDocs : x.subject = "art"}}

\* partial lesson bodies of PUT /api/lessons/:id
UpdateBodies == {[spaces |-> n] : n \in 0..MaxSeats + 1} \cup
                {[subject |-> s] : s \in Subjects}

\* :id of PUT /api/lessons/:id
UpdateIds == {"A1", "a2", "a3"}

IdLists == {<<"A1", "a2">>, <<"a2", "a3">>, <<"zz">>}

SpaceMaps == {EmptyMap} \cup
             {[k \in {"a1"} |-> n] : n \in 1..MaxSeats} \cup
             {[k \in {"a1", "a2"} |-> n] : n \in 1..MaxSeats}

FullBodies == {[name |-> "Ann", phone |-> "555", lessonIDs |-> ids, spaces |-> m] :
                  ids \in IdLists, m \in SpaceMaps}

Without(body, f) == [g \in DOMAIN body \ {f} |-> body[g]]

\* bodies with one field left out, the other three valid or not
PartialBodies == {Without(b, f) : f \in Fields,
                     b \in {x \in FullBodies : x.spaces = [k \in {"a1"} |-> 1]
                                               /\ x.lessonIDs \in {<<"A1", "a2">>, <<"zz">>}}}

OrderBodies == FullBodies \cup PartialBodies

(* ---------------------------- initial state --------------------------- *)

Init ==
    /\ lessons = EmptyMap
    /\ orders = <<>>
    /\ pc = [c \in Clients |-> "idle"]
    /\ req = [c \in Clients |-> EmptyMap]
    /\ resp = [c \in Clients |-> <<>>]
    /\ calls = [c \in Clients |-> <<>>]
    /\ raced = FALSE

(* --------------------------- lesson handlers -------------------------- *)

\* POST /api/lessons, the insertMany succeeds
CreateLessons(docs) ==
    /\ Cardinality(DOMAIN lessons) + Len(docs) <= Len(OidPool)
    /\ lessons' = InsertMany(lessons, docs)
    /\ UNCHANGED <<orders, pc, req, resp, calls, raced>>

\* PUT /api/lessons/:id, the updateOne succeeds (matching a document or not)
UpdateLesson(id, body) ==
    /\ IsValidObjectId(id)
    /\ lessons' = UpdateOne(lessons, ObjectId(id), body)
    /\ UNCHANGED <<orders, pc, req, resp, calls, raced>>

\* POST /api/lessons or PUT /api/lessons/:id whose store call throws or
\* rejects (an invalid :id, an empty batch, a store failure): catch -> 500,
\* nothing is written
LessonRequestFails ==
    /\ UNCHANGED vars

(* ----------------------------- createOrder ---------------------------- *)

Respond(c, status) == resp' = [resp EXCEPT ![c] = Append(@, status)]

\* the request arrives: presence check, then the ObjectId conversions, then
\* the find is issued
ReceiveOrder(c, body) ==
    /\ pc[c] = "idle"
    /\ req' = [req EXCEPT ![c] = body]
    /\ IF MissingFields(body)
       THEN /\ Respond(c, BadRequest)
            /\ pc' = [pc EXCEPT ![c] = "done"]
            /\ UNCHANGED calls
       ELSE IF \E i \in DOMAIN body.lessonIDs : ~IsValidObjectId(body.lessonIDs[i])
       THEN /\ Respond(c, ServerError)
            /\ pc' = [pc EXCEPT ![c] = "done"]
            /\ UNCHANGED calls
       ELSE /\ pc' = [pc EXCEPT ![c] = "find"]
            /\ calls' = [calls EXCEPT ![c] = Append(@, "find")]
            /\ UNCHANGED resp
    /\ UNCHANGED <<lessons, orders, raced>>

\* the find resolves; the handler runs the capacity loop on its result and
\* either answers 400 or builds the order and issues the insert
FindResolves(c) ==
    /\ pc[c] = "find"
    /\ IF NotEnoughSpaces(FindLessons(lessons, req[c].lessonIDs), req[c].spaces)
       THEN /\ Respond(c, BadRequest)
            /\ pc' = [pc EXCEPT ![c] = "done"]
            /\ UNCHANGED calls
       ELSE /\ pc' = [pc EXCEPT ![c] = "insert"]
            /\ calls' = [calls EXCEPT ![c] = Append(@, "insertOne")]
            /\ UNCHANGED resp
    /\ UNCHANGED <<lessons, orders, req, raced>>

\* the find rejects: catch -> 500
FindRejects(c) ==
    /\ pc[c] = "find"
    /\ Respond(c, ServerError)
    /\ pc' = [pc EXCEPT ![c] = "done"]
    /\ UNCHANGED <<lessons, orders, req, calls, raced>>

\* the insert resolves: the document is stored and the handler answers 201
InsertResolves(c) ==
    /\ pc[c] = "insert"
    /\ orders' = InsertOne(orders, MakeOrder(req[c]))
    /\ lessons' = LessonsAfterOrder(lessons, MakeOrder(req[c]))
    /\ Respond(c, Created)
    /\ pc' = [pc EXCEPT ![c] = "done"]
    /\ raced' = (raced \/ \E d \in Clients \ {c} : pc[d] = "insert")
    /\ UNCHANGED <<req, calls>>

\* the insert rejects: catch -> 500
InsertRejects(c) ==
    /\ pc[c] = "insert"
    /\ Respond(c, ServerError)
    /\ pc' = [pc EXCEPT ![c] = "done"]
    /\ UNCHANGED <<lessons, orders, req, calls, raced>>

(* --------------------------- specification ---------------------------- *)

Next ==
    \/ \E docs \in LessonBatches : CreateLessons(docs)
    \/ \E id \in UpdateIds, body \in UpdateBodies : UpdateLesson(id, body)
    \/ LessonRequestFails
    \/ \E c \in Clients, body \in OrderBodies : ReceiveOrder(c, body)
    \/ \E c \in Clients : FindResolves(c)
    \/ \E c \in Clients : FindRejects(c)
    \/ \E c \in Clients : InsertResolves(c)
    \/ \E c \in Clients : InsertRejects(c)

Spec == Init /\ [][Next]_vars

\* the same server with a single client placing an order
NextOneClient ==
    \/ \E docs \in LessonBatches : CreateLessons(docs)
    \/ \E id \in UpdateIds, body \in UpdateBodies : UpdateLesson(id, body)
    \/ LessonRequestFails
    \/ \E body \in OrderBodies : ReceiveOrder("c1", body)
    \/ FindResolves("c1")
    \/ FindRejects("c1")
    \/ InsertResolves("c1")
    \/ InsertRejects("c1")

SpecOneClient == Init /\ [][NextOneClient]_vars

(* ======================= properties of the claims ===================== *)

\* identifier string id names the lesson with ObjectId l
Names(id, l) == id = l \/ (id = "A1" /\ l = "a1")

\* the lessons now stored that the request of client c refers to
Fetched(c) ==
    {l \in DOMAIN lessons :
        \E i \in DOMAIN req[c].lessonIDs : Names(req[c].lessonIDs[i], l)}

\* the request of c asks for seats of lesson l
Asks(c, l) == l \in DOMAIN req[c].spaces

\* this step delivers the result of c's find to its handler
FindServed(c) == pc[c] = "find" /\ pc'[c] # "find" /\ resp'[c] # <<ServerError>>

\* this step delivers the acknowledgement of c's insert to its handler
InsertServed(c) == pc[c] = "insert" /\ pc'[c] # "insert" /\ resp'[c] # <<ServerError>>

\* C1: when the find of a request with all four fields returns a lesson
\* whose stored spaces is strictly less than the count the request asks for
\* that lesson, the handler answers 400, issues no insert, and the orders
\* collection is unchanged.
C1_OverCapacityRejected ==
    [][\A c \in Clients :
          (/\ FindServed(c)
           /\ \E l \in Fetched(c) : Asks(c, l) /\ lessons[l].spaces < req[c].spaces[l])
          => (/\ resp'[c] = <<BadRequest>>
              /\ pc'[c] = "done"
              /\ calls'[c] = <<"find">>
              /\ orders' = orders)]_vars

C1_Witness ==
    \E c \in Clients :
        /\ pc[c] = "done" /\ resp[c] = <<BadRequest>> /\ calls[c] = <<"find">>
        /\ \E l \in Fetched(c) : Asks(c, l) /\ lessons[l].spaces < req[c].spaces[l]
        /\ orders = <<>>

\* C2: when every lesson the find returns has a requested count that is at
\* most its stored spaces (equality included), the handler goes on to the
\* insert; and when the insert does not fail the answer is 201 and exactly
\* one document is appended, with the request's name, phone, lessonIDs and
\* spaces and with createdAt set.
C2_WithinCapacityAccepted ==
    [][\A c \in Clients :
          /\ (/\ FindServed(c)
              /\ \A l \in Fetched(c) : Asks(c, l) /\ req[c].spaces[l] <= lessons[l].spaces)
             => (pc'[c] = "insert" /\ resp'[c] = <<>>)
          /\ InsertServed(c)
             => (/\ resp'[c] = <<Created>>
                 /\ Len(orders') = Len(orders) + 1
                 /\ SubSeq(orders', 1, Len(orders)) = orders
                 /\ LET o == orders'[Len(orders')]
                    IN /\ DOMAIN o = Fields \cup {"createdAt"}
                       /\ o.name = req[c].name
                       /\ o.phone = req[c].phone
                       /\ o.lessonIDs = req[c].lessonIDs
                       /\ o.spaces = req[c].spaces)]_vars

C2_Witness ==
    \E c \in Clients :
        /\ pc[c] = "done" /\ resp[c] = <<Created>>
        /\ Fetched(c) # {}
        /\ \A l \in Fetched(c) : Asks(c, l) /\ req[c].spaces[l] = lessons[l].spaces
        /\ \E i \in DOMAIN orders :
              /\ orders[i].lessonIDs = req[c].lessonIDs
              /\ orders[i].spaces = req[c].spaces
              /\ "createdAt" \in DOMAIN orders[i]

\* C3: a request in which name, phone, lessonIDs or spaces is absent is
\* answered 400 at once: its handler issues no store call, and the orders
\* collection holds no more documents than handlers that issued an insert.
C3_MissingFieldRejected ==
    /\ \A c \in Clients :
          (pc[c] # "idle" /\ Fields \ DOMAIN req[c] # {})
          => (pc[c] = "done" /\ resp[c] = <<BadRequest>> /\ calls[c] = <<>>)
    /\ Len(orders) <= Cardinality({c \in Clients : "insertOne" \in Range(calls[c])})

C3_Witness ==
    \E c \in Clients :
        /\ pc[c] = "done"
        /\ DOMAIN req[c] = Fields \ {"phone"}
        /\ req[c].lessonIDs = <<"A1", "a2">>
        /\ "a1" \in DOMAIN lessons /\ lessons["a1"].spaces >= req[c].spaces["a1"]
        /\ resp[c] = <<BadRequest>> /\ calls[c] = <<>>
        /\ orders = <<>>

\* C4: the outcome of the capacity check does not depend on the orders
\* already stored: a request that passes the comparison against the stored
\* lessons is accepted, and its order inserted, even when the seats already
\* recorded for a lesson plus the seats it asks for exceed the lesson's
\* stored spaces.
C4_OversellAccepted ==
    [][\A c \in Clients :
          /\ (/\ FindServed(c)
              /\ \A l \in Fetched(c) : Asks(c, l) => req[c].spaces[l] <= lessons[l].spaces
              /\ \E l \in Fetched(c) :
                    Asks(c, l) /\ Sold(orders, l) + req[c].spaces[l] > lessons[l].spaces)
             => pc'[c] = "insert"
          /\ (/\ InsertServed(c)
              /\ \E l \in Fetched(c) :
                    Asks(c, l) /\ Sold(orders, l) + req[c].spaces[l] > lessons[l].spaces)
             => (resp'[c] = <<Created>> /\ Len(orders') = Len(orders) + 1)]_vars

\* two requests, each for the full stored capacity of the same lesson, both
\* passed the check before either insert, and both were answered 201
C4_Witness ==
    /\ raced
    /\ Len(orders) = 2
    /\ \A c \in Clients : pc[c] = "done" /\ resp[c] = <<Created>>
    /\ \E l \in DOMAIN lessons :
          /\ lessons[l].spaces >= 1
          /\ \A c \in Clients :
                l \in Fetched(c) /\ Asks(c, l) /\ req[c].spaces[l] = lessons[l].spaces
          /\ Sold(orders, l) > lessons[l].spaces

\* C5: no step of createOrder (a step that moves a handler or sends a
\* response) changes the lessons collection, whatever the answer; so a
\* request that passes the comparison when its order is inserted passes it
\* again afterwards.
C5_CapacityNeverDecremented ==
    [][\A c \in Clients :
          (pc'[c] # pc[c] \/ resp'[c] # resp[c])
          => (/\ lessons' = lessons
              /\ (/\ InsertServed(c)
                  /\ \A l \in Fetched(c) :
                        Asks(c, l) => req[c].spaces[l] <= lessons[l].spaces)
                 => \A l \in Fetched(c) :
                        Asks(c, l) => req[c].spaces[l] <= lessons'[l].spaces)]_vars

\* the same order placed twice, one after the other, and accepted twice
C5_Witness ==
    /\ ~raced
    /\ Len(orders) = 2
    /\ orders[1] = orders[2]
    /\ \A c \in Clients : pc[c] = "done" /\ resp[c] = <<Created>>
    /\ \E l \in DOMAIN lessons :
          \A c \in Clients :
             l \in Fetched(c) /\ Asks(c, l) /\ req[c].spaces[l] = lessons[l].spaces

\* C6: at the step that inserts an order, every stored lesson the order
\* refers to has stored spaces at least the count the order asks for it.
C6_CapacityHeldAtInsert ==
    [][\A c \in Clients :
          InsertServed(c)
          => \A l \in Fetched(c) :
                Asks(c, l) => lessons[l].spaces >= req[c].spaces[l]]_vars

\* positions of lessonIDs whose identifier names no stored lesson
Unknown(c) ==
    {i \in DOMAIN req[c].lessonIDs :
        \A l \in DOMAIN lessons : ~Names(req[c].lessonIDs[i], l)}

\* C7: an identifier in lessonIDs that names no stored lesson does not make
\* the check reject: if the lessons that are found pass (none found
\* included) the handler goes on to the insert, and the order is stored,
\* answered 201, with lessonIDs as sent.
C7_UnknownLessonSkipped ==
    [][\A c \in Clients :
          /\ (/\ FindServed(c)
              /\ Unknown(c) # {}
              /\ \A l \in Fetched(c) : Asks(c, l) => req[c].spaces[l] <= lessons[l].spaces)
             => pc'[c] = "insert"
          /\ (InsertServed(c) /\ Unknown(c) # {})
             => (/\ resp'[c] = <<Created>>
                 /\ Len(orders') = Len(orders) + 1
                 /\ orders'[Len(orders')].lessonIDs = req[c].lessonIDs)]_vars

\* an order for seats of a lesson that does not exist, with no lesson found
C7_Witness ==
    \E c \in Clients :
        /\ pc[c] = "done" /\ resp[c] = <<Created>>
        /\ "a1" \in DOMAIN lessons /\ "a2" \notin DOMAIN lessons
        /\ req[c].lessonIDs = <<"a2", "a3">> /\ Asks(c, "a2")
        /\ Fetched(c) = {}
        /\ \E i \in DOMAIN orders : orders[i].lessonIDs = <<"a2", "a3">>

\* C8: a successful update of lesson :id with a partial body sets exactly
\* the body's fields on that lesson (so the last update of a field is the
\* one that shows), keeps its other fields, and leaves every other lesson
\* and the orders collection as they were.
C8_UpdateSetsOnlyBodyFields ==
    [][\A id \in UpdateIds, body \in UpdateBodies :
          UpdateLesson(id, body)
          => (/\ orders' = orders
              /\ DOMAIN lessons' = DOMAIN lessons
              /\ \A l \in DOMAIN lessons :
                    IF Names(id, l)
                    THEN /\ DOMAIN lessons'[l] = DOMAIN lessons[l] \cup DOMAIN body
                         /\ \A f \in DOMAIN body : lessons'[l][f] = body[f]
                         /\ \A f \in DOMAIN lessons[l] \ DOMAIN body :
                               lessons'[l][f] = lessons[l][f]
                    ELSE lessons'[l] = lessons[l])]_vars

\* a lesson is created with at least one seat, so spaces = 0 shows an update;
\* its subject and the other lesson are still there
C8_Witness ==
    /\ DOMAIN lessons = {"a1", "a2"}
    /\ lessons["a1"].spaces = 0 /\ lessons["a1"].subject = "math"
    /\ lessons["a2"].spaces = MaxSeats + 1 /\ lessons["a2"].subject = "art"
    /\ orders # <<>>

\* C9: a finished createOrder request has sent exactly one response, 400,
\* 201 or 500, and an unfinished one none; the orders collection holds one
\* document per request answered 201; and the collection only ever grows by
\* one document at its end, in the step that answers 201.
C9_OneResponseOrderIff201 ==
    /\ [](/\ \A c \in Clients :
               /\ pc[c] = "done" =>
                     (Len(resp[c]) = 1 /\ resp[c][1] \in {BadRequest, Created, ServerError})
               /\ pc[c] # "done" => resp[c] = <<>>
          /\ Len(orders) = Cardinality({c \in Clients : resp[c] = <<Created>>}))
    /\ [][orders' # orders
          => (/\ Len(orders') = Len(orders) + 1
              /\ SubSeq(orders', 1, Len(orders)) = orders
              /\ \E c \in Clients : resp[c] = <<>> /\ resp'[c] = <<Created>>)]_vars

\* one request failed on the insert (500, nothing stored), the other was
\* stored and answered 201
C9_Witness ==
    \E c, d \in Clients :
        /\ pc[c] = "done" /\ resp[c] = <<ServerError>> /\ calls[c] = <<"find", "insertOne">>
        /\ pc[d] = "done" /\ resp[d] = <<Created>>
        /\ Len(orders) = 1

\* C10: only lessons with an entry in the request's spaces map can make the
\* check reject: a 400 from the check comes with a found lesson that has an
\* entry and too few spaces, and a request none of whose found lessons has an
\* entry (an empty map included) goes on to the insert whatever they store.
C10_NoEntryNoCheck ==
    [][\A c \in Clients :
          /\ (FindServed(c) /\ resp'[c] = <<BadRequest>>)
             => \E l \in Fetched(c) : Asks(c, l) /\ lessons[l].spaces < req[c].spaces[l]
          /\ (FindServed(c) /\ \A l \in Fetched(c) : ~Asks(c, l))
             => pc'[c] = "insert"]_vars

\* an order with an empty spaces map stored for a lesson that has 0 spaces
C10_Witness ==
    \E c \in Clients :
        /\ pc[c] = "done" /\ resp[c] = <<Created>>
        /\ req[c].spaces = EmptyMap
        /\ \E l \in Fetched(c) : lessons[l].spaces = 0
        /\ \E i \in DOMAIN orders :
              orders[i].spaces = EmptyMap /\ orders[i].lessonIDs = req[c].lessonIDs

====
